---- MODULE Spec2Model ----
(***************************************************************************)
(* Model of crates/ra_cargo_watch/src/lib.rs: the CheckWatcher facade, the *)
(* CheckWatcherThread supervisor loop, the WatchThread worker and the      *)
(* run_cargo process runner, with the crossbeam channels between them and  *)
(* the join-on-drop thread handles (jod_thread) that tie their lifetimes.  *)
(***************************************************************************)
EXTENDS Integers, Sequences, FiniteSets

\* ------------------------------------------------------------------ bounds
\* update() calls made by the caller in one behaviour.
MaxUpdates == 2
\* lines the external processes write in one behaviour of Spec.
MaxLines == 1
\* lines the external process writes in one behaviour of RunSpec.
MaxRunLines == 3
\* diagnostics map_rust_diagnostic_to_lsp may produce for one compiler message.
MaxDiags == 1

VARIABLES
    options,          \* CheckOptions given to CheckWatcher::new
    dummy,            \* the facade was built by CheckWatcher::dummy()
    fpc,              \* caller: position in the facade's life / drop glue
    nUpd,             \* update() calls made so far
    updPanicked,      \* an update() call panicked on its unwrap
    task_recv_open,   \* CheckWatcher.task_recv not yet dropped
    cmd_send_open,    \* CheckWatcher.cmd_send not yet dropped
    cmd_recv_open,    \* the supervisor's cmd_recv not yet dropped
    cmdQ,             \* CheckCommand::Update values queued on the command channel
    tasks,            \* every CheckTask sent on the task channel, in order
    spc,              \* supervisor thread: position in run / unwinding
    spanic,           \* the supervisor thread is panicking / has panicked
    last_update_req,  \* CheckWatcherThread.last_update_req.is_some()
    watcher,          \* CheckWatcherThread.watcher
    old,              \* the WatchThread value being dropped
    nCmd,             \* commands received by the supervisor so far
    nNew,             \* WatchThread::new calls so far
    budget,           \* lines the external processes write in this behaviour
    nLines,           \* lines read from all processes so far
    worker            \* one record per WatchThread::new call

vars == <<options, dummy, fpc, nUpd, updPanicked, task_recv_open, cmd_send_open,
          cmd_recv_open, cmdQ, tasks, spc, spanic, last_update_req, watcher, old,
          nCmd, nNew, budget, nLines, worker>>

facadeVars == <<fpc, nUpd, updPanicked, task_recv_open, cmd_send_open>>
supVars == <<spc, spanic, last_update_req, watcher, old, nCmd, nNew, cmd_recv_open>>

Gens == 1..MaxUpdates

\* ------------------------------------------------------------------ values
LineKinds == {"ioerr", "garbage", "fresh", "artifact", "diag", "script", "unknown"}

workspace_root == "root"

\* format!("{}/Cargo.toml", workspace_root.display())
ManifestPath(root) == IF root = "root" THEN "root/Cargo.toml" ELSE "/Cargo.toml"

\* The argument list assembled by WatchThread::new.
Args(opts) ==
    <<opts.command, "--workspace", "--message-format=json", "--manifest-path",
      ManifestPath(workspace_root)>>
    \o (IF opts.all_targets THEN <<"--all-targets">> ELSE <<>>)
    \o opts.args

NoRes == [kind |-> "none", status |-> "none", args |-> <<>>]
OkRes == [kind |-> "Ok", status |-> "none", args |-> <<>>]

\* WatchThread::dummy(): a never() receiver and no thread handle.
DummyWatch == [gen |-> 0, recv |-> "never", handle |-> FALSE]

\* A worker slot before WatchThread::new fills it.
NoWorker ==
    [pc |-> "unborn", child |-> "none", out |-> <<>>, stopped |-> FALSE,
     seen |-> FALSE, status |-> "none", res |-> NoRes, waited |-> FALSE,
     spawned |-> 0, emitted |-> <<>>, sinkLog |-> <<>>, q |-> <<>>,
     recv_open |-> FALSE, send_open |-> FALSE]

Task(t, g) == [t |-> t, g |-> g]

\* A line that serde_json parses as a cargo_metadata::Message.
Parsable(k) == k \in {"fresh", "artifact", "diag", "script", "unknown"}

\* The sink's early returns: messages that are not forwarded.
Skipped(k) == k \in {"fresh", "script", "unknown"}

ThreadOver(w) == w.pc \in {"unborn", "none", "finished", "panicked", "joined"}

\* What is left of a worker once its WatchThread value has been dropped and
\* its thread joined: the thread's outcome and the state of its child.
Forget(w) == [NoWorker EXCEPT !.pc = "joined", !.child = w.child]

\* ------------------------------------------------------------------ Init
\* A construction that installs WatchThread::new at once, as if the first
\* restart had been requested by CheckWatcher::new itself.
Init_Eager ==
    /\ dummy \in BOOLEAN
    /\ options \in [enable : IF dummy THEN {FALSE} ELSE BOOLEAN,
                    all_targets : {FALSE}, command : {"check"}, args : {<<>>}]
    /\ budget = MaxLines
    /\ fpc = "live"
    /\ nUpd = 0
    /\ updPanicked = FALSE
    /\ task_recv_open = TRUE
    /\ cmd_send_open = ~dummy
    /\ cmd_recv_open = ~dummy
    /\ cmdQ = 0
    /\ tasks = <<>>
    /\ spc = IF dummy THEN "stopped" ELSE "select"
    /\ spanic = FALSE
    /\ last_update_req = FALSE
    /\ watcher = IF dummy THEN DummyWatch
                 ELSE [gen |-> 1, recv |-> "chan", handle |-> options.enable]
    /\ old = DummyWatch
    /\ nCmd = 0
    /\ nNew = IF dummy THEN 0 ELSE 1
    /\ nLines = 0
    /\ worker = [g \in Gens |->
                   IF g = 1 /\ ~dummy
                     THEN [NoWorker EXCEPT !.pc = IF options.enable THEN "begin" ELSE "none",
                                           !.recv_open = TRUE,
                                           !.send_open = options.enable]
                     ELSE NoWorker]

Init ==
    /\ dummy \in BOOLEAN
    /\ options \in [enable : IF dummy THEN {FALSE} ELSE BOOLEAN,
                    all_targets : {FALSE}, command : {"check"}, args : {<<>>}]
    /\ budget = MaxLines
    /\ fpc = "live"
    /\ nUpd = 0
    /\ updPanicked = FALSE
    /\ task_recv_open = TRUE
    /\ cmd_send_open = ~dummy
    /\ cmd_recv_open = ~dummy
    /\ cmdQ = 0
    /\ tasks = <<>>
    /\ spc = IF dummy THEN "stopped" ELSE "select"
    /\ spanic = FALSE
    /\ last_update_req = FALSE
    /\ watcher = DummyWatch
    /\ old = DummyWatch
    /\ nCmd = 0
    /\ nNew = 0
    /\ nLines = 0
    /\ worker = [g \in Gens |-> NoWorker]

\* ------------------------------------------------------------------ facade
\* CheckWatcher::update.
Update ==
    /\ fpc = "live"
    /\ ~updPanicked
    /\ nUpd < MaxUpdates
    /\ nUpd' = nUpd + 1
    /\ IF dummy
         THEN UNCHANGED <<cmdQ, updPanicked>>
         ELSE IF cmd_recv_open
                THEN cmdQ' = cmdQ + 1 /\ UNCHANGED updPanicked
                ELSE updPanicked' = TRUE /\ UNCHANGED cmdQ
    /\ UNCHANGED <<options, dummy, budget, fpc, task_recv_open, cmd_send_open, tasks,
                   supVars, nLines, worker>>

\* Drop glue of CheckWatcher, first field: task_recv.
DropTaskRecv ==
    /\ fpc = "live"
    /\ fpc' = "drop_cmd_send"
    /\ task_recv_open' = FALSE
    /\ UNCHANGED <<options, dummy, budget, nUpd, updPanicked, cmd_send_open, cmdQ, tasks,
                   supVars, nLines, worker>>

\* Drop glue of CheckWatcher, second field: cmd_send.
DropCmdSend ==
    /\ fpc = "drop_cmd_send"
    /\ fpc' = "join_handle"
    /\ cmd_send_open' = FALSE
    /\ UNCHANGED <<options, dummy, budget, nUpd, updPanicked, task_recv_open, cmdQ, tasks,
                   supVars, nLines, worker>>

\* Drop glue of CheckWatcher, third field: the jod_thread handle, which joins
\* the supervisor thread and re-raises its panic in a thread not yet panicking.
JoinHandle ==
    /\ fpc = "join_handle"
    /\ spc = "stopped"
    /\ fpc' = IF spanic /\ ~updPanicked THEN "drop_panicked" ELSE "disposed"
    /\ UNCHANGED <<options, dummy, budget, nUpd, updPanicked, task_recv_open, cmd_send_open,
                   cmdQ, tasks, supVars, nLines, worker>>

\* ------------------------------------------------------------------ channels
\* Sender::send on worker g's event channel: fails once the receiver is dropped.
SendOk(w) == w.recv_open

Sent(w, e) ==
    [w EXCEPT !.q = IF SendOk(w) THEN Append(w.q, e) ELSE w.q,
              !.emitted = Append(w.emitted, [e |-> e, ok |-> SendOk(w)])]

\* Dropping the receiver of a WatchThread value: the channel and what it holds go.
CloseRecv(wt) ==
    IF wt.recv = "chan"
      THEN [worker EXCEPT ![wt.gen].recv_open = FALSE, ![wt.gen].q = <<>>]
      ELSE worker

\* ------------------------------------------------------------------ supervisor
\* CheckWatcherThread::handle_message: the task requests one event becomes;
\* n is the number of diagnostics map_rust_diagnostic_to_lsp returns.
handle_message(e, n, g) ==
    CASE e = "Begin" -> <<Task("Begin", g)>>
      [] e = "End" -> <<Task("End", g)>>
      [] e \in {"artifact", "fresh"} -> <<Task("Report", g)>>
      [] e = "diag" -> [i \in 1..n |-> Task("AddDiagnostic", g)]
      [] OTHER -> <<>>

\* task_send.send(..).unwrap() for each of ts: panics once task_recv is dropped.
SendTasks(ts, next) ==
    IF ts = <<>> \/ task_recv_open
      THEN /\ tasks' = tasks \o ts
           /\ spc' = next
           /\ UNCHANGED spanic
      ELSE /\ spanic' = TRUE
           /\ spc' = "exit_drop"
           /\ UNCHANGED tasks

\* CheckWatcherThread::should_recheck.
should_recheck(lur) == IF lur THEN TRUE ELSE FALSE

\* The end of one loop iteration: restart if should_recheck, else select again.
AfterArm(lur) == IF should_recheck(lur) THEN "clear" ELSE "select"

\* CheckWatcherThread::handle_command: the new value of last_update_req.
handle_command(cmd) == cmd = "Update"

\* select!: the command arm with a command queued, then handle_command.
SelectCmd ==
    /\ spc = "select"
    /\ cmdQ > 0
    /\ cmdQ' = cmdQ - 1
    /\ nCmd' = nCmd + 1
    /\ last_update_req' = handle_command("Update")
    /\ spc' = AfterArm(last_update_req')
    /\ UNCHANGED <<options, dummy, budget, facadeVars, tasks, spanic, watcher, old, nNew,
                   cmd_recv_open, nLines, worker>>

\* select!: the command arm with the channel empty and its sender dropped: break.
SelectCmdClosed ==
    /\ spc = "select"
    /\ cmdQ = 0
    /\ ~cmd_send_open
    /\ spc' = "exit_drop"
    /\ UNCHANGED <<options, dummy, budget, facadeVars, cmdQ, tasks, spanic, last_update_req,
                   watcher, old, nCmd, nNew, cmd_recv_open, nLines, worker>>

\* select!: the worker arm with an event queued, then handle_message.
SelectMsg ==
    /\ spc = "select"
    /\ watcher.recv = "chan"
    /\ worker[watcher.gen].q # <<>>
    /\ LET g == watcher.gen
           e == Head(worker[g].q)
       IN /\ worker' = [worker EXCEPT ![g].q = Tail(worker[g].q)]
          /\ \E n \in 0..MaxDiags :
               /\ (e # "diag") => (n = 0)
               /\ SendTasks(handle_message(e, n, g), AfterArm(last_update_req))
    /\ UNCHANGED <<options, dummy, budget, facadeVars, cmdQ, last_update_req, watcher, old,
                   nCmd, nNew, cmd_recv_open, nLines>>

\* The worker arm restarting the Worker when its event channel closes.
SelectMsgClosed_Retry ==
    /\ spc = "select"
    /\ watcher.recv = "chan"
    /\ worker[watcher.gen].q = <<>>
    /\ ~worker[watcher.gen].send_open
    /\ watcher' = [watcher EXCEPT !.recv = "never"]
    /\ worker' = CloseRecv(watcher)
    /\ spc' = "clear"
    /\ UNCHANGED <<options, dummy, budget, facadeVars, cmdQ, tasks, spanic, last_update_req,
                   old, nCmd, nNew, cmd_recv_open, nLines>>

\* select!: the worker arm with the channel empty and its sender dropped:
\* message_recv is replaced by never().
SelectMsgClosed ==
    /\ spc = "select"
    /\ watcher.recv = "chan"
    /\ worker[watcher.gen].q = <<>>
    /\ ~worker[watcher.gen].send_open
    /\ watcher' = [watcher EXCEPT !.recv = "never"]
    /\ worker' = CloseRecv(watcher)
    /\ spc' = AfterArm(last_update_req)
    /\ UNCHANGED <<options, dummy, budget, facadeVars, cmdQ, tasks, spanic, last_update_req,
                   old, nCmd, nNew, cmd_recv_open, nLines>>

\* Clear without last_update_req.take(): the flag stays set.
Clear_NoTake ==
    /\ spc = "clear"
    /\ SendTasks(<<Task("ClearDiagnostics", nNew + 1)>>, "drop_old")
    /\ UNCHANGED <<options, dummy, budget, facadeVars, cmdQ, watcher, old, nCmd, nNew,
                   cmd_recv_open, nLines, worker, last_update_req>>

\* A restart that tears the Worker down without sending ClearDiagnostics.
Clear_Silent ==
    /\ spc = "clear"
    /\ last_update_req' = FALSE
    /\ spc' = "drop_old"
    /\ UNCHANGED <<options, dummy, budget, facadeVars, cmdQ, watcher, old, nCmd, nNew,
                   cmd_recv_open, nLines, worker, tasks, spanic>>

\* The restart: last_update_req.take() and the send of ClearDiagnostics. The
\* task is tagged with the worker the restart is about to build.
Clear ==
    /\ spc = "clear"
    /\ last_update_req' = FALSE
    /\ SendTasks(<<Task("ClearDiagnostics", nNew + 1)>>, "drop_old")
    /\ UNCHANGED <<options, dummy, budget, facadeVars, cmdQ, watcher, old, nCmd, nNew,
                   cmd_recv_open, nLines, worker>>

\* A restart that is skipped while the current worker thread is still running.
DropOld_SkipIfBusy ==
    /\ spc = "drop_old"
    /\ IF watcher.handle /\ ~ThreadOver(worker[watcher.gen])
         THEN /\ spc' = "select"
              /\ UNCHANGED <<old, watcher, worker>>
         ELSE /\ old' = watcher
              /\ watcher' = DummyWatch
              /\ worker' = CloseRecv(watcher)
              /\ spc' = "join_old"
    /\ UNCHANGED <<options, dummy, budget, facadeVars, cmdQ, tasks, spanic,
                   last_update_req, nCmd, nNew, cmd_recv_open, nLines>>

\* mem::replace(&mut self.watcher, WatchThread::dummy()): the old value is
\* dropped, first field first: message_recv.
DropOld ==
    /\ spc = "drop_old"
    /\ old' = watcher
    /\ watcher' = DummyWatch
    /\ worker' = CloseRecv(watcher)
    /\ spc' = "join_old"
    /\ UNCHANGED <<options, dummy, budget, facadeVars, cmdQ, tasks, spanic, last_update_req,
                   nCmd, nNew, cmd_recv_open, nLines>>

\* A handle that is dropped without joining its thread.
JoinOld_NoJoin ==
    /\ spc = "join_old"
    /\ spc' = "new"
    /\ old' = DummyWatch
    /\ UNCHANGED <<options, dummy, budget, facadeVars, cmdQ, tasks, last_update_req,
                   watcher, nCmd, nNew, cmd_recv_open, nLines, worker, spanic>>

\* The old value's second field: the jod_thread handle joins the worker thread,
\* and re-raises its panic.
JoinOld ==
    /\ spc = "join_old"
    /\ old.handle => ThreadOver(worker[old.gen])
    /\ IF old.handle /\ worker[old.gen].pc = "panicked"
         THEN spanic' = TRUE /\ spc' = "exit_drop"
         ELSE spc' = "new" /\ UNCHANGED spanic
    /\ old' = DummyWatch
    /\ worker' = IF old.gen = 0 THEN worker
                 ELSE [worker EXCEPT ![old.gen] = Forget(worker[old.gen])]
    /\ UNCHANGED <<options, dummy, budget, facadeVars, cmdQ, tasks, last_update_req, watcher,
                   nCmd, nNew, cmd_recv_open, nLines>>

\* WatchThread::new that keeps message_send alive when no thread is spawned.
New_KeepSender ==
    /\ spc = "new"
    /\ nNew' = nNew + 1
    /\ worker' = [worker EXCEPT ![nNew + 1] =
                    [NoWorker EXCEPT !.pc = IF options.enable THEN "begin" ELSE "none",
                                     !.recv_open = TRUE,
                                     !.send_open = TRUE]]
    /\ watcher' = [gen |-> nNew + 1, recv |-> "chan", handle |-> options.enable]
    /\ spc' = "select"
    /\ UNCHANGED <<options, dummy, budget, facadeVars, cmdQ, tasks, spanic,
                   last_update_req, old, nCmd, cmd_recv_open, nLines>>

\* WatchThread::new that spawns the thread whatever options.enable says.
New_AlwaysSpawn ==
    /\ spc = "new"
    /\ nNew' = nNew + 1
    /\ worker' = [worker EXCEPT ![nNew + 1] =
                    [NoWorker EXCEPT !.pc = "begin", !.recv_open = TRUE,
                                     !.send_open = TRUE]]
    /\ watcher' = [gen |-> nNew + 1, recv |-> "chan", handle |-> TRUE]
    /\ spc' = "select"
    /\ UNCHANGED <<options, dummy, budget, facadeVars, cmdQ, tasks, spanic,
                   last_update_req, old, nCmd, cmd_recv_open, nLines>>

\* self.watcher = WatchThread::new(&self.options, &self.workspace_root).
New ==
    /\ spc = "new"
    /\ nNew' = nNew + 1
    /\ worker' = [worker EXCEPT ![nNew + 1] =
                    [NoWorker EXCEPT !.pc = IF options.enable THEN "begin" ELSE "none",
                                     !.recv_open = TRUE,
                                     !.send_open = options.enable]]
    /\ watcher' = [gen |-> nNew + 1, recv |-> "chan", handle |-> options.enable]
    /\ spc' = "select"
    /\ UNCHANGED <<options, dummy, budget, facadeVars, cmdQ, tasks, spanic, last_update_req,
                   old, nCmd, cmd_recv_open, nLines>>

\* The supervisor thread's closure ends (break or unwinding): the
\* CheckWatcherThread is dropped, and with it self.watcher: message_recv first.
ExitDrop ==
    /\ spc = "exit_drop"
    /\ old' = watcher
    /\ watcher' = DummyWatch
    /\ worker' = CloseRecv(watcher)
    /\ spc' = "exit_join"
    /\ UNCHANGED <<options, dummy, budget, facadeVars, cmdQ, tasks, spanic, last_update_req,
                   nCmd, nNew, cmd_recv_open, nLines>>

\* ... then the worker thread is joined, and then the closure's captures
\* (task_send, cmd_recv) are dropped and the thread is over.
ExitJoin ==
    /\ spc = "exit_join"
    /\ old.handle => ThreadOver(worker[old.gen])
    /\ spanic' = (spanic \/ (old.handle /\ worker[old.gen].pc = "panicked"))
    /\ old' = DummyWatch
    /\ cmd_recv_open' = FALSE
    /\ spc' = "stopped"
    /\ worker' = IF old.gen = 0 THEN worker
                 ELSE [worker EXCEPT ![old.gen] = Forget(worker[old.gen])]
    /\ UNCHANGED <<options, dummy, budget, facadeVars, cmdQ, tasks, last_update_req, watcher,
                   nCmd, nNew, nLines>>

\* ------------------------------------------------------------------ run_cargo
\* A match that reports every non-success exit as a failure.
run_cargo_result_Strict(io_ok, status, seen, args) ==
    IF ~io_ok THEN [kind |-> "io_error", status |-> "none", args |-> <<>>]
    ELSE IF status # "exit0"
      THEN [kind |-> "no_metadata", status |-> status, args |-> args]
      ELSE OkRes

\* child.wait() and the match on it: the Result run_cargo returns.
run_cargo_result(io_ok, status, seen, args) ==
    IF ~io_ok THEN [kind |-> "io_error", status |-> "none", args |-> <<>>]
    ELSE IF status # "exit0" /\ ~seen
      THEN [kind |-> "no_metadata", status |-> status, args |-> args]
      ELSE OkRes

\* The sink WatchThread::new passes to run_cargo, applied to message k:
\* the worker after the call, and what the sink returned.
on_message(w, k) ==
    IF Skipped(k) THEN [w |-> w, ret |-> TRUE]
    ELSE [w |-> Sent(w, k), ret |-> SendOk(w)]

\* ------------------------------------------------------------------ worker
\* Worker thread: message_send.send(CheckEvent::Begin), result ignored.
WBegin(g) ==
    /\ worker[g].pc = "begin"
    /\ worker' = [worker EXCEPT ![g] = [Sent(worker[g], "Begin") EXCEPT !.pc = "spawn"]]
    /\ UNCHANGED <<options, dummy, budget, facadeVars, cmdQ, tasks, supVars, nLines>>

\* run_cargo: Command::spawn succeeds.
WSpawn(g) ==
    /\ worker[g].pc = "spawn"
    /\ worker' = [worker EXCEPT ![g].pc = "read", ![g].child = "running",
                                ![g].spawned = worker[g].spawned + 1]
    /\ UNCHANGED <<options, dummy, budget, facadeVars, cmdQ, tasks, supVars, nLines>>

\* run_cargo: Command::spawn fails and expect() panics; unwinding drops
\* message_send.
WSpawnFail(g) ==
    /\ worker[g].pc = "spawn"
    /\ worker' = [worker EXCEPT ![g].pc = "panicked", ![g].send_open = FALSE]
    /\ UNCHANGED <<options, dummy, budget, facadeVars, cmdQ, tasks, supVars, nLines>>

\* The external process exits by itself, closing its stdout.
ProcExit(g) ==
    /\ worker[g].child = "running"
    /\ \E st \in {"exit0", "exit1"} :
         worker' = [worker EXCEPT ![g].child = "exited", ![g].status = st]
    /\ UNCHANGED <<options, dummy, budget, facadeVars, cmdQ, tasks, supVars, nLines>>

\* A read loop that does not break when the sink returns false.
ReadLine_IgnoreStop(g) ==
    /\ worker[g].pc = "read"
    /\ worker[g].child = "running"
    /\ nLines < budget
    /\ nLines' = nLines + 1
    /\ \E k \in LineKinds :
         LET w == [worker[g] EXCEPT !.out = Append(@, k)]
             r == on_message(w, k)
         IN worker' = [worker EXCEPT ![g] =
              IF ~Parsable(k)
                THEN w
                ELSE [r.w EXCEPT !.seen = TRUE,
                                 !.sinkLog = Append(w.sinkLog,
                                                    [i |-> Len(w.out), k |-> k, r |-> r.ret]),
                                 !.stopped = ~r.ret]]
    /\ UNCHANGED <<options, dummy, budget, facadeVars, cmdQ, tasks, supVars>>

\* run_cargo: one iteration of `for line in stdout.lines()`, on a line k the
\* process writes: read, parse, and hand to the sink.
ReadLine(g) ==
    /\ worker[g].pc = "read"
    /\ worker[g].child = "running"
    /\ nLines < budget
    /\ nLines' = nLines + 1
    /\ \E k \in LineKinds :
         LET w == [worker[g] EXCEPT !.out = Append(@, k)]
             r == on_message(w, k)
         IN worker' = [worker EXCEPT ![g] =
              IF ~Parsable(k)
                THEN w
                ELSE [r.w EXCEPT !.seen = TRUE,
                                 !.sinkLog = Append(w.sinkLog,
                                                    [i |-> Len(w.out), k |-> k, r |-> r.ret]),
                                 !.stopped = ~r.ret,
                                 !.pc = IF r.ret THEN "read" ELSE "kill"]]
    /\ UNCHANGED <<options, dummy, budget, facadeVars, cmdQ, tasks, supVars>>

\* run_cargo: stdout.lines() ends (the process closed its stdout).
WReadEof(g) ==
    /\ worker[g].pc = "read"
    /\ worker[g].child = "exited"
    /\ worker' = [worker EXCEPT ![g].pc = "kill"]
    /\ UNCHANGED <<options, dummy, budget, facadeVars, cmdQ, tasks, supVars, nLines>>

\* A return that neither kills the child nor waits for it.
WKillWait_Leak(g) ==
    /\ worker[g].pc = "kill"
    /\ worker' = [worker EXCEPT ![g].pc = "end", ![g].res = OkRes]
    /\ UNCHANGED <<options, dummy, budget, facadeVars, cmdQ, tasks, supVars, nLines>>

\* run_cargo: let _ = child.kill(), then child.wait() and the return.
WKillWait(g) ==
    /\ worker[g].pc = "kill"
    /\ \E io_ok \in BOOLEAN :
         LET status == IF worker[g].child = "running" THEN "sig9" ELSE worker[g].status
         IN worker' = [worker EXCEPT
                      ![g].pc = "end",
                      ![g].waited = TRUE,
                      ![g].status = status,
                      ![g].child = IF io_ok THEN "reaped" ELSE "killed",
                      ![g].res = run_cargo_result(io_ok, status, worker[g].seen,
                                                  Args(options))]
    /\ UNCHANGED <<options, dummy, budget, facadeVars, cmdQ, tasks, supVars, nLines>>

\* Worker thread: message_send.send(CheckEvent::End), result ignored; the
\* thread ends and message_send is dropped.
WEnd(g) ==
    /\ worker[g].pc = "end"
    /\ worker' = [worker EXCEPT ![g] =
                    [Sent(worker[g], "End") EXCEPT !.pc = "finished",
                                                   !.send_open = FALSE]]
    /\ UNCHANGED <<options, dummy, budget, facadeVars, cmdQ, tasks, supVars, nLines>>

\* ------------------------------------------------------------------ system
Facade == Update \/ DropTaskRecv \/ DropCmdSend \/ JoinHandle

Supervisor ==
    \/ SelectCmd \/ SelectCmdClosed \/ SelectMsg \/ SelectMsgClosed
    \/ Clear \/ DropOld \/ JoinOld \/ New \/ ExitDrop \/ ExitJoin

WorkerThread(g) ==
    \/ WBegin(g) \/ WSpawn(g) \/ WSpawnFail(g) \/ WReadEof(g)
    \/ WKillWait(g) \/ WEnd(g)

\* Steps that wait on the external process: it writes a line, or it exits.
Process(g) == ReadLine(g) \/ ProcExit(g)

Next ==
    \/ Facade
    \/ Supervisor
    \/ \E g \in Gens : WorkerThread(g)
    \/ \E g \in Gens : Process(g)

Spec == Init /\ [][Next]_vars

\* One worker run in detail: the state Spec is in once the first update() of an
\* enabled CheckWatcher has been served (ClearDiagnostics sent, the first
\* WatchThread built), from which the caller makes no further update() call.
InitRun ==
    /\ dummy = FALSE
    /\ options \in [enable : {TRUE}, all_targets : BOOLEAN,
                    command : {"check"}, args : {<<>>}]
    /\ budget = MaxRunLines
    /\ fpc = "live"
    /\ nUpd = 1
    /\ updPanicked = FALSE
    /\ task_recv_open = TRUE
    /\ cmd_send_open = TRUE
    /\ cmd_recv_open = TRUE
    /\ cmdQ = 0
    /\ tasks = <<Task("ClearDiagnostics", 1)>>
    /\ spc = "select"
    /\ spanic = FALSE
    /\ last_update_req = FALSE
    /\ watcher = [gen |-> 1, recv |-> "chan", handle |-> TRUE]
    /\ old = DummyWatch
    /\ nCmd = 1
    /\ nNew = 1
    /\ nLines = 0
    /\ worker = [g \in Gens |->
                   IF g = 1 THEN [NoWorker EXCEPT !.pc = "begin", !.recv_open = TRUE,
                                                  !.send_open = TRUE]
                            ELSE NoWorker]

NextRun ==
    \/ DropTaskRecv \/ DropCmdSend \/ JoinHandle
    \/ SelectCmdClosed \/ SelectMsg \/ SelectMsgClosed \/ ExitDrop \/ ExitJoin
    \/ WorkerThread(1)
    \/ Process(1)

RunSpec == InitRun /\ [][NextRun]_vars

\* The threads are scheduled fairly; the caller and the external process are
\* under no obligation to act, except that drop glue once entered runs on.
FairSpec ==
    /\ Spec
    /\ WF_vars(Supervisor)
    /\ WF_vars(\E g \in Gens : WorkerThread(g))
    /\ WF_vars(DropCmdSend \/ JoinHandle)

\* ------------------------------------------------------------------ properties
\* Number of ClearDiagnostics task requests sent so far.
NClear == Cardinality({i \in 1..Len(tasks) : tasks[i].t = "ClearDiagnostics"})

\* The worker thread is running (spawned and not yet over).
ThreadLive(w) == ~ThreadOver(w)

\* A live Worker: a running worker thread or a running child process.
Live(w) == ThreadLive(w) \/ w.child = "running"

\* C1 as stated: when all MaxUpdates (>= 2) restart requests were issued before
\* the Supervisor received any of them, they collapse into one cycle: at most
\* one ClearDiagnostics is ever sent and at most one Worker ever constructed.
C1_Collapse ==
    []((nUpd = MaxUpdates /\ cmdQ = MaxUpdates) => [](NClear <= 1 /\ nNew <= 1))

\* C1 as amended: requests are not coalesced. Whenever the Supervisor waits in
\* select, it has sent one ClearDiagnostics and constructed one Worker for each
\* command it has received, and the pending flag is clear.
C1_OneCyclePerCommand ==
    spc = "select" => (NClear = nCmd /\ nNew = nCmd /\ ~last_update_req)

C1_Witness ==
    /\ spc = "select"
    /\ nUpd = 2 /\ nCmd = 2 /\ cmdQ = 0
    /\ NClear = 2 /\ nNew = 2

\* C2: on the task stream, nothing that follows the ClearDiagnostics of a
\* restart comes from a Worker older than the one that restart builds.
C2_NoStaleAfterClear ==
    \A i \in 1..Len(tasks) : \A j \in 1..Len(tasks) :
        (i < j /\ tasks[i].t = "ClearDiagnostics") => tasks[j].g >= tasks[i].g

\* The first Worker's Begin was sent but the restart came first: nothing of
\* Worker 1 is on the stream, while Worker 2's events are.
C2_Witness ==
    /\ options.enable
    /\ nNew = 2
    /\ \A i \in 1..Len(tasks) : tasks[i].g = 1 => tasks[i].t = "ClearDiagnostics"
    /\ \E i \in 1..Len(tasks) : tasks[i] = Task("Begin", 2)

\* C3: at most one Worker is live, and every Worker older than the newest is
\* fully stopped: its thread over and its child process not running.
C3_OneLiveWorker ==
    /\ Cardinality({g \in Gens : Live(worker[g])}) <= 1
    /\ \A g \in Gens : g < nNew => ~Live(worker[g])

\* A Worker whose child had been started was replaced, and its successor runs.
C3_Witness ==
    /\ nNew = 2
    /\ worker[1].child = "reaped"
    /\ worker[2].child = "running"

Disposed == fpc \in {"disposed", "drop_panicked"}

\* A step of one of the subsystem's own threads: the Supervisor or a worker
\* thread. Steps that wait for the external process to write or exit are not.
ThreadStep == Supervisor \/ \E g \in Gens : WorkerThread(g)

Dropping == fpc \in {"drop_cmd_send", "join_handle"}

\* C4 as stated: when the drop of the facade has returned, the command channel
\* is closed, the Supervisor thread is over and no Worker is live; and the
\* drop always returns: while it is under way, the drop glue or one of the
\* subsystem's threads can take a step, whatever the external process does.
C4_DisposalCompletes ==
    /\ Disposed => (~cmd_send_open /\ spc = "stopped"
                     /\ \A g \in Gens : ~Live(worker[g]))
    /\ Dropping => ENABLED (DropCmdSend \/ JoinHandle \/ ThreadStep)

\* C5 as stated: with a disabled configuration or the dummy facade no task
\* request is ever sent.
C5_NeverYields == ~options.enable => tasks = <<>>

\* C5 as amended: the dummy facade never yields a task request; a disabled
\* configuration yields nothing but ClearDiagnostics, at most one per update(),
\* and never starts a thread or a process; and the drop of either never hangs:
\* while it is under way the drop glue or the Supervisor can take a step.
C5_DisabledQuiet ==
    /\ dummy => tasks = <<>>
    /\ ~options.enable =>
          /\ \A i \in 1..Len(tasks) : tasks[i].t = "ClearDiagnostics"
          /\ Len(tasks) <= nUpd
          /\ \A g \in Gens : ~Live(worker[g]) /\ worker[g].child = "none"
          /\ Dropping => ENABLED (DropCmdSend \/ JoinHandle \/ Supervisor)

C5_Witness ==
    /\ ~dummy /\ ~options.enable
    /\ nUpd = 2
    /\ NClear = 2
    /\ fpc = "disposed"

\* Number of events e among the send attempts of a worker.
Count(em, e) == Cardinality({i \in 1..Len(em) : em[i].e = e})

\* C6 as stated: a worker thread that is over has emitted exactly one Begin,
\* first, and exactly one End, last; and one that is running has emitted its
\* Begin before anything else.
C6_BeginEnd ==
    \A g \in Gens :
        LET em == worker[g].emitted IN
        /\ (em # <<>>) => (em[1].e = "Begin" /\ Count(em, "Begin") = 1)
        /\ worker[g].pc \in {"finished", "panicked"} =>
             /\ em # <<>>
             /\ em[Len(em)].e = "End"
             /\ Count(em, "End") = 1

\* The lines of out that parse, as indices.
ParsedIdx(out) == {i \in 1..Len(out) : Parsable(out[i])}

RunReturned(w) == w.pc \in {"end", "finished"}

\* C7: when run_cargo has returned with an exit status, it returned Ok if the
\* status is success, Ok if it is not but some line read had parsed, and the
\* failure carrying the status and the arguments if no line read had parsed.
C7_Result ==
    \A g \in Gens :
        LET w == worker[g] IN
        (RunReturned(w) /\ w.child = "reaped") =>
            /\ w.status = "exit0" => w.res = OkRes
            /\ (w.status # "exit0" /\ ParsedIdx(w.out) # {}) => w.res = OkRes
            /\ (w.status # "exit0" /\ ParsedIdx(w.out) = {}) =>
                 w.res = [kind |-> "no_metadata", status |-> w.status,
                          args |-> Args(options)]

\* Both non-success outcomes happen: garbage only, and a message then a kill.
C7_Witness ==
    /\ RunReturned(worker[1])
    /\ worker[1].child = "reaped"
    /\ worker[1].status = "exit1"
    /\ Len(worker[1].out) = 2
    /\ ParsedIdx(worker[1].out) = {}
    /\ worker[1].res.kind = "no_metadata"

\* C8: the sink has been invoked on exactly the lines read that parse, in
\* order, each with its message; only its last call can have returned false,
\* and then no line was read after that one.
C8_SkipAndContinue ==
    \A g \in Gens :
        LET w == worker[g]
            n == Len(w.sinkLog)
        IN /\ n = Cardinality(ParsedIdx(w.out))
           /\ \A j \in 1..n :
                /\ w.sinkLog[j].i \in ParsedIdx(w.out)
                /\ w.sinkLog[j].k = w.out[w.sinkLog[j].i]
                /\ j < n => (w.sinkLog[j].i < w.sinkLog[j + 1].i /\ w.sinkLog[j].r)
           /\ (n > 0 /\ ~w.sinkLog[n].r) =>
                (w.sinkLog[n].i = Len(w.out) /\ w.pc # "read")

\* An unparsable line, then a message the sink accepts, then one it refuses.
C8_Witness ==
    /\ Len(worker[1].out) = 3
    /\ ~Parsable(worker[1].out[1])
    /\ Len(worker[1].sinkLog) = 2
    /\ worker[1].sinkLog[1].r
    /\ ~worker[1].sinkLog[2].r

\* C9: a call of run_cargo spawns at most one child, and when it has returned
\* it has spawned exactly one, which is not running and has been waited for;
\* no worker that is over leaves a child running.
C9_ChildReaped ==
    \A g \in Gens :
        LET w == worker[g] IN
        /\ w.spawned <= 1
        /\ RunReturned(w) =>
             (w.spawned = 1 /\ w.waited /\ w.child \in {"reaped", "killed"})
        /\ ThreadOver(w) => w.child # "running"

\* The loop was ended by the sink and the child, still running, was killed.
C9_Witness ==
    \E g \in Gens :
        /\ worker[g].pc = "finished"
        /\ worker[g].stopped
        /\ worker[g].status = "sig9"
        /\ worker[g].child = "reaped"

\* C10 as stated: a restart request made on a live facade is always honored:
\* while some update() has not yet led to its Worker (and nothing has
\* panicked), one of the subsystem's threads can take a step, whatever the
\* current Worker and its external process are doing.
C10_Honored ==
    (/\ ~dummy /\ fpc = "live" /\ nNew < nUpd
     /\ ~spanic /\ ~updPanicked
     /\ \A g \in Gens : worker[g].pc # "panicked")
        => ENABLED ThreadStep

\* The Supervisor is inside a restart: between should_recheck and the
\* assignment of the new Worker.
InRestart == spc \in {"clear", "drop_old", "join_old", "new"}

\* C11: a restart is always externally triggered. The Workers constructed are
\* at most the ClearDiagnostics sent, these at most the commands received,
\* and these at most the update() calls made; and a restart under way is the
\* one of a received command that has not yet got its Worker.
C11_ExternallyTriggered ==
    /\ nNew <= NClear
    /\ NClear <= nCmd
    /\ nCmd <= nUpd
    /\ InRestart => nNew < nCmd
    /\ last_update_req => spc = "clear"

\* The first Worker's run failed, the Supervisor saw its channel close, and
\* it goes on waiting with that one Worker and no other.
C11_Witness ==
    /\ spc = "select"
    /\ nUpd = 1 /\ nNew = 1 /\ NClear = 1
    /\ watcher = [gen |-> 1, recv |-> "never", handle |-> TRUE]
    /\ worker[1].pc = "finished"
    /\ worker[1].res.kind = "no_metadata"

\* C12 as stated: on disposal the command sender is dropped before the task
\* receiver: the task channel is never closed while the command channel is
\* still open.
C12_CmdSendDroppedFirst == ~task_recv_open => ~cmd_send_open

\* C13: in a restart ClearDiagnostics is sent first, while the current Worker
\* is still held; then that Worker is dropped; then the new one is built. On
\* the task stream every task request of a Worker's run, its Status Begin
\* included, comes after the ClearDiagnostics of the restart that built it.
C13_ClearDropNew ==
    /\ spc = "clear" => (NClear = nNew /\ old = DummyWatch)
    /\ spc = "drop_old" => (NClear = nNew + 1 /\ old = DummyWatch /\ watcher.gen \in {0, nNew})
    /\ spc \in {"join_old", "new"} => (NClear = nNew + 1 /\ watcher = DummyWatch)
    /\ spc = "new" => (old = DummyWatch /\ \A g \in Gens : ~Live(worker[g]))
    /\ \A j \in 1..Len(tasks) :
         tasks[j].t # "ClearDiagnostics" =>
            \E i \in 1..(j - 1) : tasks[i] = Task("ClearDiagnostics", tasks[j].g)

\* A running Worker was replaced: its Begin, the ClearDiagnostics of the
\* restart, and the Begin of the replacement are on the stream in that order.
C13_Witness ==
    \E i \in 1..Len(tasks) : \E j \in 1..Len(tasks) : \E k \in 1..Len(tasks) :
        /\ i < j /\ j < k
        /\ tasks[i] = Task("Begin", 1)
        /\ tasks[j] = Task("ClearDiagnostics", 2)
        /\ tasks[k] = Task("Begin", 2)

\* The Supervisor is inside the drop of a WatchThread value, at the join.
InWorkerDrop == spc \in {"join_old", "exit_join"}

\* C14 as stated: the drop of a WatchThread returns only after its thread is
\* over, leaves no child running, and always returns: while the Supervisor is
\* at the join, the join or a worker thread can take a step, whatever the
\* external process does (it may write nothing more and not exit). Drops made
\* by a Supervisor that is unwinding from a panic are left aside.
C14_DropKillsAndReturns ==
    /\ \A g \in Gens : worker[g].pc = "joined" => worker[g].child # "running"
    /\ (InWorkerDrop /\ ~spanic) => ENABLED (JoinOld \/ ExitJoin \/ \E g \in Gens : WorkerThread(g))

\* C15 as stated: with a disabled configuration the Supervisor's receive on
\* the Worker's event source never completes: it neither returns an event nor
\* reports the channel closed.
C15_NeverCompletes ==
    ~options.enable => ~ENABLED (SelectMsg \/ SelectMsgClosed)

\* C15 as amended: a Worker built from a disabled configuration holds no
\* thread, starts no process and never delivers an event; its sender is gone
\* from the start, so a Supervisor waiting on its channel is told once that
\* the channel is closed, and then holds a source that never yields.
C15_DisabledWorker ==
    ~options.enable =>
        /\ ~watcher.handle /\ ~old.handle
        /\ \A g \in Gens :
             /\ ~ThreadLive(worker[g]) /\ worker[g].child = "none"
             /\ worker[g].q = <<>> /\ worker[g].emitted = <<>>
             /\ ~worker[g].send_open
        /\ ~ENABLED SelectMsg
        /\ (spc = "select" /\ watcher.recv = "chan") => ENABLED SelectMsgClosed
        /\ watcher.recv = "never" => ~ENABLED SelectMsgClosed

\* The closure of the disabled Worker's channel was reported and the source
\* replaced; the Supervisor waits again.
C15_Witness ==
    /\ ~dummy /\ ~options.enable
    /\ spc = "select"
    /\ nNew = 1
    /\ watcher = [gen |-> 1, recv |-> "never", handle |-> FALSE]

\* The kinds of the task requests ts are a translation of the process output
\* ms: a Report for each non-fresh artifact, any number of AddDiagnostic for
\* each compiler message, nothing for any other line, in the order of ms.
RECURSIVE Translates(_, _)
Translates(ts, ms) ==
    IF ms = <<>> THEN ts = <<>>
    ELSE CASE Head(ms) = "artifact" ->
                /\ ts # <<>>
                /\ Head(ts).t = "Report"
                /\ Translates(Tail(ts), Tail(ms))
           [] Head(ms) = "diag" ->
                \/ Translates(ts, Tail(ms))
                \/ /\ ts # <<>>
                   /\ Head(ts).t = "AddDiagnostic"
                   /\ Translates(Tail(ts), ms)
           [] OTHER -> Translates(ts, Tail(ms))

\* The run of the current Worker is over and the Supervisor has taken all it
\* sent, with no restart and no disposal begun.
RunComplete ==
    /\ fpc = "live" /\ nNew = 1 /\ cmdQ = 0
    /\ spc = "select"
    /\ watcher = [gen |-> 1, recv |-> "never", handle |-> TRUE]

\* C16 as stated: once an uninterrupted run is over, the task stream holds,
\* after the ClearDiagnostics of its restart, Status Begin, then the in-order
\* translation of all the process wrote, then Status End, and nothing else.
C16_InOrderTranslation ==
    RunComplete =>
        /\ Len(tasks) >= 3
        /\ tasks[1].t = "ClearDiagnostics"
        /\ tasks[2].t = "Begin"
        /\ tasks[Len(tasks)].t = "End"
        /\ Translates(SubSeq(tasks, 3, Len(tasks) - 1), worker[1].out)

\* The Supervisor has left its loop: it is dropping its state, or is over.
LoopOver == spc \in {"exit_drop", "exit_join", "stopped"}

\* C17 as stated: the Supervisor leaves its loop only on the closure of the
\* command channel: whenever it has left the loop, the command sender has been
\* dropped. And a step that finds the current Worker's event channel closed
\* stays in the loop, installs a source that never yields, and leaves the
\* pending-restart flag as it was.
C17_OnlyCommandClosureStops ==
    /\ [](LoopOver => ~cmd_send_open)
    /\ [][SelectMsgClosed =>
            /\ spc' = "select"
            /\ watcher'.recv = "never"
            /\ last_update_req' = last_update_req]_vars

\* The Supervisor's next step can be a send on the task channel: the
\* ClearDiagnostics of a restart, or the forwarding of a queued Worker event.
TaskSendDue ==
    \/ spc = "clear"
    \/ /\ spc = "select"
       /\ watcher.recv = "chan"
       /\ worker[watcher.gen].q # <<>>
       /\ Head(worker[watcher.gen].q) # "diag"

\* C18 as stated: every send succeeds. No update() has panicked on its send;
\* an update() that can be made finds the command receiver alive; and whenever
\* the Supervisor is about to send a task request, the task receiver is alive.
C18_SendsSucceed ==
    /\ ~updPanicked
    /\ (~dummy /\ fpc = "live") => cmd_recv_open
    /\ TaskSendDue => task_recv_open

\* C19: until the first update() call nothing has been sent on the task
\* channel, no Worker has been built and no process started, whatever the
\* configuration; and the first task request ever sent is ClearDiagnostics.
C19_IdleUntilFirstUpdate ==
    /\ nUpd = 0 =>
          /\ tasks = <<>>
          /\ nNew = 0
          /\ watcher = DummyWatch
          /\ \A g \in Gens : worker[g] = NoWorker
    /\ tasks # <<>> => tasks[1].t = "ClearDiagnostics"

\* An enabled facade served its first update(): ClearDiagnostics heads the
\* stream, the Worker's requests follow, and its process runs.
C19_Witness ==
    /\ options.enable
    /\ nUpd = 1
    /\ Len(tasks) >= 2
    /\ tasks[1].t = "ClearDiagnostics"
    /\ tasks[2].t = "Begin"
    /\ worker[1].child = "running"

\* Positions of the task stream.
TaskIdx == 1..Len(tasks)

\* The Status(End) at position j closes a Status(Begin) of the same run, with
\* no ClearDiagnostics and no other Status(Begin) between the two.
EndClosesBegin(j) ==
    \E i \in 1..(j - 1) :
        /\ tasks[i] = Task("Begin", tasks[j].g)
        /\ \A k \in (i + 1)..(j - 1) : tasks[k].t \notin {"ClearDiagnostics", "Begin"}

\* C20 as stated: every Status(End) closes a Status(Begin) of its run; between
\* two Status(Begin) there is a ClearDiagnostics; and a Status(Begin) gets its
\* Status(End): once the run it opened is over and the Supervisor has taken
\* all the Worker sent, with no restart after it and no disposal begun, the
\* Status(End) of that run is on the stream.
C20_Bracketed ==
    /\ \A j \in TaskIdx : tasks[j].t = "End" => EndClosesBegin(j)
    /\ \A i \in TaskIdx : \A j \in TaskIdx :
         (i < j /\ tasks[i].t = "Begin" /\ tasks[j].t = "Begin") =>
            \E k \in (i + 1)..(j - 1) : tasks[k].t = "ClearDiagnostics"
    /\ \A i \in TaskIdx :
         (/\ tasks[i].t = "Begin"
          /\ fpc = "live" /\ spc = "select" /\ cmdQ = 0
          /\ watcher.gen = tasks[i].g /\ watcher.recv = "never") =>
            \E j \in (i + 1)..Len(tasks) : tasks[j] = Task("End", tasks[i].g)

====
